---- MODULE Spec2Model ----
(***************************************************************************)
(* State-machine model of the two concurrency primitives of the            *)
(* microsoft-agents-hosting-core package:                                  *)
(*   - ValueLock / SmartValueLock   (utils/value_lock.py)                  *)
(*   - JwtTokenValidator.get_key    (authorization/jwt_token_validator.py) *)
(* Spec    : one lock object (a ValueLock or a SmartValueLock) driven by   *)
(*           any sequence of acquire / release / size calls and clock      *)
(*           advances.                                                     *)
(* KeySpec : the class-level key cache driven by concurrent get_key        *)
(*           coroutines on one event loop.                                 *)
(***************************************************************************)
EXTENDS Integers, FiniteSets, Sequences, TLC

\* ------------------------------------------------------------------ bounds
MaxTime == 3        \* the lock clock runs over 0..MaxTime
MaxDelay == 1       \* largest clock advance between the two now() reads of acquire
MaxDuration == 2    \* min_lock_duration, min_cond_release_interval range over 0..MaxDuration
MaxThreshold == 2   \* size_threshold ranges over 0..MaxThreshold

\* ------------------------------------------------------------------ values
None == "None"
Values == {"a", "b"}
Inputs == Values \cup {None}
\* What a call returns: acquire a boolean, release a set, size a number.
NoRet == [acquired |-> FALSE, released |-> {}, size |-> 0]
\* acquiredAt[v] when no acquire(v) has returned True since the last release.
Never == 0 - 1

VARIABLES
  kind,                       \* "ValueLock" or "SmartValueLock": the class of the lock object
  used_values,                \* ValueLock._used_values (for a SmartValueLock: of its _value_lock)
  added_times,                \* SmartValueLock._added_times
  last_release_time,          \* SmartValueLock._last_release_time
  min_lock_duration,          \* SmartValueLock._min_lock_duration
  size_threshold,             \* SmartValueLock._size_threshold
  min_cond_release_interval,  \* SmartValueLock._min_cond_release_interval
  now,                        \* datetime.now().timestamp(), relative to construction
  op,                         \* the last call made on the lock
  ret,                        \* what that call returned
  acquiredAt,                 \* history: when acquire(v) last returned True since the last release
  released,                   \* history: release() has been called at least once
  prevHeld,                   \* history: the set held just before the last release ({} before any)
  lastBulk                    \* history: time of the latest construction, release() or eviction

VARIABLES
  key_cache,          \* JwtTokenValidator.key_cache: kid -> key
  last_refresh_time,  \* JwtTokenValidator.last_refresh_time
  locked,             \* JwtTokenValidator.lock: asyncio.Lock._locked
  waiters,            \* JwtTokenValidator.lock: asyncio.Lock._waiters, in arrival order
  utcnow,             \* datetime.now(timezone.utc).timestamp()
  pc,                 \* where each get_key coroutine stands
  kid,                \* its kid argument
  client,             \* its jwks_client argument (NoClient once it has finished)
  result,             \* the key it returned (NoKey: none)
  seen,               \* history: key_cache[kid] when the lookup was issued (NoKey: absent)
  late,               \* history: the lookup was issued at or after last_refresh_time + TTL
  queued,             \* history: the lookup had to wait for the lock
  busy,               \* history: the lock was held when the lookup was issued
  issued,             \* history: number of get_key calls made so far
  calls,              \* history: get_signing_key calls started, per kid
  failures,           \* history: get_signing_key calls that raised, per kid
  fetchedBy,          \* history: the jwks_client whose key is cached, per kid
  foreign             \* history: the kid was cached from another client when the lookup was issued

keyVars == <<key_cache, last_refresh_time, locked, waiters, utcnow, pc, kid, client,
             result, seen, late, queued, busy, issued, calls, failures, fetchedBy,
             foreign>>

lockVars == <<kind, used_values, added_times, last_release_time, min_lock_duration,
              size_threshold, min_cond_release_interval, now, op, ret, acquiredAt,
              released, prevHeld, lastBulk>>

vars == <<lockVars, keyVars>>

\* ------------------------------------------------------------- key cache

TTL == 3600         \* the literal of get_key's fast-path test

MaxLookups == 3     \* get_key calls made in one behaviour
\* The wall clock runs over 0, ClockStep, .. up to MaxClock: before, at and
\* after the TTL.
ClockStep == TTL \div 2
MaxClock == TTL + ClockStep

Callers == {"c1", "c2", "c3"}
Kids == {"k1", "k2"}
\* The two JWKS endpoints _get_public_key_or_secret builds a client for.
Clients == {"botframework", "tenant"}
Keys == {"keyA", "keyB"}
NoKey == "NoKey"
NoClient == "NoClient"

\* Mutant of FastPath: the fast path is never taken.
FastPath_never(k, t) == FALSE

\* get_key, the fast-path test of line 67.
FastPath(k, t) == k \in DOMAIN key_cache /\ last_refresh_time + TTL > t

\* Mutants of Recheck: no second test under the lock; the fast-path test repeated.
Recheck_none(k, t) == FALSE
Recheck_withTTL(k, t) == FastPath(k, t)

\* get_key, the second test of line 71, made while holding the lock (it does
\* not read the clock t).
Recheck(k, t) == k \in DOMAIN key_cache

\* Mutant of LockFree: the lock is taken without looking at its state.
LockFree_always == TRUE

\* asyncio.Lock.acquire on entry of "async with cls.lock": the lock is taken at
\* once when it is free and nobody is queued for it, else the caller queues.
LockFree == ~locked /\ waiters = <<>>

\* Mutant of LockOnExit: the lock is kept when the block is left.
LockOnExit_held(raised) == TRUE

\* Mutant of LockOnExit: the lock is released on the normal exit only.
LockOnExit_normalOnly(raised) == raised

\* "async with cls.lock", the state of the lock when the block is left, by a
\* return or by an exception.
LockOnExit(raised) == FALSE

\* Mutant of Stored: the cache is replaced by the new entry alone.
Stored_only(cache, k, key) == [x \in {k} |-> key]

\* get_key, line 74: cls.key_cache[kid] = key.
Stored(cache, k, key) ==
  [x \in DOMAIN cache \cup {k} |-> IF x = k THEN key ELSE cache[x]]

KeyIdle ==
  /\ key_cache = [x \in {} |-> NoKey]
  /\ last_refresh_time = 0
  /\ locked = FALSE
  /\ waiters = <<>>
  /\ pc = [c \in Callers |-> "idle"]
  /\ kid = [c \in Callers |-> "k1"]
  /\ client = [c \in Callers |-> NoClient]
  /\ result = [c \in Callers |-> NoKey]
  /\ seen = [c \in Callers |-> NoKey]
  /\ late = [c \in Callers |-> FALSE]
  /\ queued = [c \in Callers |-> FALSE]
  /\ busy = [c \in Callers |-> FALSE]
  /\ issued = 0
  /\ calls = [k \in Kids |-> 0]
  /\ failures = [k \in Kids |-> 0]
  /\ fetchedBy = [k \in Kids |-> NoClient]
  /\ foreign = [c \in Callers |-> FALSE]

\* Mutant of UnderLock: a key cached from another jwks_client counts as absent.
UnderLock_perClient(c, cl, k) ==
  IF Recheck(k, utcnow) /\ fetchedBy[k] = cl
    THEN /\ pc' = [pc EXCEPT ![c] = "returned"]
         /\ result' = [result EXCEPT ![c] = key_cache[k]]
         /\ client' = [client EXCEPT ![c] = NoClient]
         /\ locked' = LockOnExit(FALSE)
         /\ UNCHANGED calls
    ELSE /\ pc' = [pc EXCEPT ![c] = "fetching"]
         /\ result' = [result EXCEPT ![c] = NoKey]
         /\ client' = [client EXCEPT ![c] = cl]
         /\ locked' = TRUE
         /\ calls' = [calls EXCEPT ![k] = @ + 1]

\* get_key, lines 71-73, run with the lock held: return the cached key and
\* leave the block, or start get_signing_key in a thread and suspend.
UnderLock(c, cl, k) ==
  IF Recheck(k, utcnow)
    THEN /\ pc' = [pc EXCEPT ![c] = "returned"]
         /\ result' = [result EXCEPT ![c] = key_cache[k]]
         /\ client' = [client EXCEPT ![c] = NoClient]
         /\ locked' = LockOnExit(FALSE)
         /\ UNCHANGED calls
    ELSE /\ pc' = [pc EXCEPT ![c] = "fetching"]
         /\ result' = [result EXCEPT ![c] = NoKey]
         /\ client' = [client EXCEPT ![c] = cl]
         /\ locked' = TRUE
         /\ calls' = [calls EXCEPT ![k] = @ + 1]

\* A call get_key(jwks_client, kid), run up to its first suspension or its return.
GetKey(c, cl, k) ==
  /\ pc[c] \in {"idle", "returned", "raised"}
  /\ issued < MaxLookups
  /\ issued' = issued + 1
  /\ kid' = [kid EXCEPT ![c] = k]
  /\ seen' = [seen EXCEPT ![c] = IF k \in DOMAIN key_cache THEN key_cache[k] ELSE NoKey]
  /\ late' = [late EXCEPT ![c] = (utcnow >= last_refresh_time + TTL)]
  /\ busy' = [busy EXCEPT ![c] = locked]
  /\ foreign' = [foreign EXCEPT ![c] = (k \in DOMAIN key_cache /\ fetchedBy[k] # cl)]
  /\ IF FastPath(k, utcnow)
       THEN /\ pc' = [pc EXCEPT ![c] = "returned"]
            /\ result' = [result EXCEPT ![c] = key_cache[k]]
            /\ client' = [client EXCEPT ![c] = NoClient]
            /\ queued' = [queued EXCEPT ![c] = FALSE]
            /\ UNCHANGED <<locked, waiters, calls>>
       ELSE IF LockFree
         THEN /\ UnderLock(c, cl, k)
              /\ queued' = [queued EXCEPT ![c] = FALSE]
              /\ UNCHANGED waiters
         ELSE /\ pc' = [pc EXCEPT ![c] = "waiting"]
              /\ result' = [result EXCEPT ![c] = NoKey]
              /\ client' = [client EXCEPT ![c] = cl]
              /\ waiters' = Append(waiters, c)
              /\ queued' = [queued EXCEPT ![c] = TRUE]
              /\ UNCHANGED <<locked, calls>>
  /\ UNCHANGED <<key_cache, last_refresh_time, utcnow, failures, fetchedBy>>
  /\ UNCHANGED lockVars

\* The first queued coroutine is woken by the release of the lock and takes it.
Resume(c) ==
  /\ pc[c] = "waiting"
  /\ ~locked
  /\ waiters # <<>>
  /\ Head(waiters) = c
  /\ waiters' = Tail(waiters)
  /\ UnderLock(c, client[c], kid[c])
  /\ UNCHANGED <<key_cache, last_refresh_time, utcnow, kid, seen, late, queued, busy,
                 issued, failures, fetchedBy, foreign>>
  /\ UNCHANGED lockVars

\* get_signing_key returns a key: lines 74-75 and the exit of the block.
FetchReturns(c, key) ==
  /\ pc[c] = "fetching"
  /\ key_cache' = Stored(key_cache, kid[c], key)
  /\ pc' = [pc EXCEPT ![c] = "returned"]
  /\ result' = [result EXCEPT ![c] = key]
  /\ client' = [client EXCEPT ![c] = NoClient]
  /\ locked' = LockOnExit(FALSE)
  /\ fetchedBy' = [fetchedBy EXCEPT ![kid[c]] = client[c]]
  /\ UNCHANGED <<last_refresh_time, waiters, utcnow, kid, seen, late, queued, busy,
                 issued, calls, failures, foreign>>
  /\ UNCHANGED lockVars

\* get_signing_key raises: the exception leaves the block and get_key.
FetchRaises(c) ==
  /\ pc[c] = "fetching"
  /\ UNCHANGED key_cache
  /\ pc' = [pc EXCEPT ![c] = "raised"]
  /\ result' = [result EXCEPT ![c] = NoKey]
  /\ client' = [client EXCEPT ![c] = NoClient]
  /\ locked' = LockOnExit(TRUE)
  /\ failures' = [failures EXCEPT ![kid[c]] = @ + 1]
  /\ UNCHANGED <<last_refresh_time, waiters, utcnow, kid, seen, late, queued, busy,
                 issued, calls, fetchedBy, foreign>>
  /\ UNCHANGED lockVars

\* The wall clock advances.
ClockTick ==
  /\ utcnow + ClockStep <= MaxClock
  /\ utcnow' = utcnow + ClockStep
  /\ UNCHANGED <<key_cache, last_refresh_time, locked, waiters, pc, kid, client, result,
                 seen, late, queued, busy, issued, calls, failures, fetchedBy, foreign>>
  /\ UNCHANGED lockVars

KeyInit ==
  /\ KeyIdle
  /\ utcnow \in {0, ClockStep}
  /\ kind = "ValueLock"
  /\ used_values = {}
  /\ now = 0
  /\ last_release_time = 0
  /\ min_lock_duration = 0
  /\ size_threshold = 0
  /\ min_cond_release_interval = 0
  /\ added_times = [v \in {} |-> 0]
  /\ op = [name |-> "init", arg |-> None]
  /\ ret = NoRet
  /\ acquiredAt = [v \in Inputs |-> Never]
  /\ released = FALSE
  /\ prevHeld = {}
  /\ lastBulk = 0

KeyNext ==
  \/ \E c \in Callers, cl \in Clients, k \in Kids : GetKey(c, cl, k)
  \/ \E c \in Callers : Resume(c)
  \/ \E c \in Callers, key \in Keys : FetchReturns(c, key)
  \/ \E c \in Callers : FetchRaises(c)
  \/ ClockTick

KeySpec == KeyInit /\ [][KeyNext]_vars

\* The event loop runs every coroutine it has woken, and the thread started by
\* asyncio.to_thread ends: get_signing_key returns a key or raises.
KeyFair ==
  /\ \A c \in Callers : WF_vars(Resume(c))
  /\ \A c \in Callers : WF_vars((\E key \in Keys : FetchReturns(c, key)) \/ FetchRaises(c))

KeyLive == KeySpec /\ KeyFair

\* ----------------------------------------------------------- key cache claims

Returned(k) == {c \in Callers : pc[c] = "returned" /\ kid[c] = k}

Fetching(k) == {c \in Callers : pc[c] = "fetching" /\ kid[c] = k}

\* C1: as long as no get_signing_key call for a kid has failed, the client has
\* been called at most once for it, exactly once when a lookup of it has
\* returned, and all the lookups of it that have returned hold the same key.
C1_SingleFlight ==
  \A k \in Kids :
    failures[k] = 0 =>
      /\ calls[k] <= 1
      /\ Returned(k) # {} => calls[k] = 1
      /\ \A c1, c2 \in Returned(k) : result[c1] = result[c2]

C1_Witness ==
  /\ pc["c1"] = "returned" /\ kid["c1"] = "k1" /\ seen["c1"] = NoKey /\ ~queued["c1"]
  /\ pc["c2"] = "returned" /\ kid["c2"] = "k1" /\ seen["c2"] = NoKey /\ queued["c2"]
  /\ pc["c3"] = "returned" /\ kid["c3"] = "k1" /\ seen["c3"] = NoKey /\ queued["c3"]
  /\ result["c1"] \in Keys
  /\ result["c2"] = result["c1"]
  /\ result["c3"] = result["c1"]
  /\ calls["k1"] = 1
  /\ failures["k1"] = 0

\* C4: when get_signing_key raises, the caller raises, the lock is free
\* afterwards and key_cache is what it was before.
C4_FailureLeavesNoTrace ==
  [][\A c \in Callers :
       FetchRaises(c) =>
         /\ pc'[c] = "raised"
         /\ ~locked'
         /\ key_cache' = key_cache]_vars

C4_Witness ==
  /\ pc["c1"] = "raised"
  /\ kid["c1"] = "k1"
  /\ failures["k1"] = 1
  /\ pc["c2"] = "fetching"
  /\ kid["c2"] = "k1"
  /\ queued["c2"]
  /\ "k1" \notin DOMAIN key_cache

\* C5: at most one get_signing_key call per kid is in flight.
C5_OneFetchInFlight ==
  \A k \in Kids : Cardinality(Fetching(k)) <= 1

C5_Witness ==
  /\ pc["c1"] = "fetching" /\ kid["c1"] = "k1"
  /\ pc["c2"] = "waiting" /\ kid["c2"] = "k1"
  /\ pc["c3"] = "waiting" /\ kid["c3"] = "k1"

\* C6: a lookup of a kid that was in key_cache when it was issued, issued at or
\* after last_refresh_time + TTL, never calls the client and returns the key
\* that was cached.
C6_PostTTLLookup ==
  \A c \in Callers :
    (late[c] /\ seen[c] # NoKey) =>
      /\ pc[c] \in {"waiting", "returned"}
      /\ pc[c] = "returned" => result[c] = seen[c]

C6_Witness ==
  /\ late["c2"]
  /\ seen["c2"] \in Keys
  /\ queued["c2"]
  /\ pc["c2"] = "returned"
  /\ result["c2"] = seen["c2"]
  /\ calls[kid["c2"]] = 1
  /\ utcnow >= last_refresh_time + TTL

\* C15: when get_key stores the key of a kid that was not cached,
\* last_refresh_time becomes the time of that store, and no other step of a
\* lookup changes last_refresh_time.
C15_RefreshTimeOnInsert ==
  [][/\ \A c \in Callers, key \in Keys :
          (FetchReturns(c, key) /\ kid[c] \notin DOMAIN key_cache) =>
            last_refresh_time' = utcnow
     /\ (~ \E c \in Callers, key \in Keys : FetchReturns(c, key)) =>
          last_refresh_time' = last_refresh_time]_vars

\* C16: while the lock is held by a caller whose get_signing_key call is in
\* flight, a lookup of a cached kid made with last_refresh_time + TTL > utcnow
\* returns the cached key at once and neither takes the lock nor queues for it.
C16_FastPathLockFree ==
  [][\A c \in Callers, cl \in Clients, k \in Kids :
       ( /\ locked
         /\ \E o \in Callers \ {c} : pc[o] = "fetching"
         /\ k \in DOMAIN key_cache
         /\ last_refresh_time + TTL > utcnow
         /\ GetKey(c, cl, k) ) =>
           /\ pc'[c] = "returned"
           /\ result'[c] = key_cache[k]
           /\ locked' = locked
           /\ waiters' = waiters
           /\ \A o \in Callers \ {c} : pc'[o] = pc[o]]_vars

C16_Witness ==
  /\ pc["c1"] = "fetching" /\ kid["c1"] = "k2"
  /\ locked
  /\ pc["c2"] = "returned" /\ kid["c2"] = "k1"
  /\ busy["c2"]
  /\ ~queued["c2"]
  /\ ~late["c2"]
  /\ seen["c2"] \in Keys
  /\ result["c2"] = seen["c2"]
  /\ waiters = <<>>

\* C17: an entry of key_cache stays in it, with the same key, in every step.
C17_InsertOnly ==
  [][\A k \in DOMAIN key_cache :
       /\ k \in DOMAIN key_cache'
       /\ key_cache'[k] = key_cache[k]]_vars

C17_Witness ==
  /\ DOMAIN key_cache = Kids
  /\ key_cache["k1"] # key_cache["k2"]
  /\ calls = [k \in Kids |-> 1]
  /\ utcnow >= last_refresh_time + TTL
  /\ \E c \in Callers :
       /\ pc[c] = "returned" /\ late[c] /\ seen[c] \in Keys /\ result[c] = key_cache[kid[c]]

Done(c) == (pc[c] = "returned" /\ result[c] \in Keys) \/ pc[c] = "raised"

\* C21: when every get_signing_key call ends and woken coroutines are run,
\* every lookup that queued for the lock or started a fetch ends by returning a
\* key or raising, and a held lock becomes free.
C21_Termination ==
  /\ \A c \in Callers : (pc[c] \in {"waiting", "fetching"}) ~> Done(c)
  /\ locked ~> ~locked

C21_Witness ==
  /\ pc["c1"] = "raised" /\ ~queued["c1"]
  /\ pc["c2"] = "raised" /\ queued["c2"]
  /\ pc["c3"] = "returned" /\ queued["c3"] /\ result["c3"] \in Keys
  /\ kid["c1"] = "k1" /\ kid["c2"] = "k1" /\ kid["c3"] = "k1"
  /\ failures["k1"] = 2
  /\ ~locked
  /\ waiters = <<>>

\* C22: a lookup of a cached kid returns the cached key, the one fetched by
\* the client recorded in fetchedBy, whatever jwks_client the caller passes,
\* and starts no get_signing_key call; the entry and its origin stay.
C22_KeyedByKid ==
  [][/\ \A c \in Callers, cl \in Clients, k \in Kids :
          (k \in DOMAIN key_cache /\ GetKey(c, cl, k)) =>
            /\ pc'[c] \in {"returned", "waiting"}
            /\ pc'[c] = "returned" => result'[c] = key_cache[k]
            /\ calls' = calls
     /\ \A c \in Callers :
          (kid[c] \in DOMAIN key_cache /\ Resume(c)) =>
            /\ pc'[c] = "returned"
            /\ result'[c] = key_cache[kid[c]]
            /\ calls' = calls
     /\ \A k \in DOMAIN key_cache :
          /\ k \in DOMAIN key_cache'
          /\ key_cache'[k] = key_cache[k]
          /\ fetchedBy'[k] = fetchedBy[k]
          /\ fetchedBy[k] \in Clients]_vars

C22_Witness ==
  /\ fetchedBy["k1"] = "botframework"
  /\ \E c \in Callers :
       /\ foreign[c]
       /\ late[c]
       /\ kid[c] = "k1"
       /\ pc[c] = "returned"
       /\ result[c] = key_cache["k1"]
  /\ \E c \in Callers :
       /\ foreign[c]
       /\ ~late[c]
       /\ kid[c] = "k1"
       /\ pc[c] = "returned"
       /\ result[c] = key_cache["k1"]
  /\ calls["k1"] = 1


\* Mutants of ValueLock_accepts: the membership test, or the None test, left out.
ValueLock_accepts_noMembership(value, used) == value # None
ValueLock_accepts_noNoneTest(value, used) == value \notin used

\* ValueLock.acquire, the test of line 25 negated: the value is accepted.
ValueLock_accepts(value, used) == ~(value = None \/ value \in used)

\* ValueLock.acquire, the set after the call.
ValueLock_acquire(value, used) ==
  IF ValueLock_accepts(value, used) THEN used \cup {value} ELSE used

\* Mutant of ValueLock_release_returned: the set is replaced before it is read.
ValueLock_release_returned_afterClear(used) == {}

\* ValueLock.release: the set returned.
ValueLock_release_returned(used) == used

\* Mutant of ValueLock_release_left: the set is returned but not replaced.
ValueLock_release_left_notCleared(used) == used

\* ValueLock.release: the set the lock holds afterwards.
ValueLock_release_left(used) == {}

\* ValueLock.size
ValueLock_size(used) == Cardinality(used)

\* ----------------------------------------------------------- SmartValueLock

\* Mutants of Triggers: the early return taken only when both tests hold; the
\* interval test left out.
Triggers_either(ts, size) ==
  ~(ts - last_release_time < min_cond_release_interval /\ size < size_threshold)
Triggers_sizeOnly(ts, size) == ~(size < size_threshold)

\* SmartValueLock._conditional_release, the early return of lines 79-83 negated.
Triggers(ts, size) ==
  ~(ts - last_release_time < min_cond_release_interval \/ size < size_threshold)

\* Mutants of Survivors: nothing is reinserted after the drain; the age is
\* compared with the release interval instead of the lock duration.
Survivors_none(values, ts, added) == {}
Survivors_byInterval(values, ts, added) ==
  {v \in values : (ts - added[v]) < min_cond_release_interval}

\* Mutant of Survivors: a value whose age equals the lock duration is kept.
Survivors_inclusive(values, ts, added) ==
  {v \in values : (ts - added[v]) <= min_lock_duration}

\* SmartValueLock._conditional_release, new_values of lines 87-89.
Survivors(values, ts, added) ==
  {v \in values : (ts - added[v]) < min_lock_duration}

\* Mutant of Restrict: the times of the dropped values are kept.
Restrict_keepAll(f, S) == f

\* SmartValueLock._conditional_release, line 91: _added_times cut down to new_values.
Restrict(f, S) == [v \in S |-> f[v]]

\* ------------------------------------------------------------------ Init

Init ==
  /\ kind \in {"ValueLock", "SmartValueLock"}
  /\ used_values \in SUBSET Values
  /\ now = 0
  /\ last_release_time = 0
  /\ IF kind = "SmartValueLock"
       THEN /\ min_lock_duration \in 0..MaxDuration
            /\ size_threshold \in 0..MaxThreshold
            /\ min_cond_release_interval \in 0..MaxDuration
            /\ added_times = [v \in used_values |-> 0]
       ELSE /\ min_lock_duration = 0
            /\ size_threshold = 0
            /\ min_cond_release_interval = 0
            /\ added_times = [v \in {} |-> 0]
  /\ op = [name |-> "init", arg |-> None]
  /\ ret = NoRet
  /\ acquiredAt = [v \in Inputs |-> Never]
  /\ released = FALSE
  /\ prevHeld = {}
  /\ lastBulk = 0
  /\ KeyIdle
  /\ utcnow = 0

config == <<kind, min_lock_duration, size_threshold, min_cond_release_interval>>

\* ------------------------------------------------------- ValueLock actions

VL_Acquire(value) ==
  /\ kind = "ValueLock"
  /\ used_values' = ValueLock_acquire(value, used_values)
  /\ op' = [name |-> "acquire", arg |-> value]
  /\ ret' = [NoRet EXCEPT !.acquired = ValueLock_accepts(value, used_values)]
  /\ acquiredAt' = IF ValueLock_accepts(value, used_values)
                     THEN [acquiredAt EXCEPT ![value] = now] ELSE acquiredAt
  /\ UNCHANGED keyVars
  /\ UNCHANGED <<config, added_times, last_release_time, now, released, prevHeld, lastBulk>>

VL_Release ==
  /\ kind = "ValueLock"
  /\ used_values' = ValueLock_release_left(used_values)
  /\ op' = [name |-> "release", arg |-> None]
  /\ ret' = [NoRet EXCEPT !.released = ValueLock_release_returned(used_values)]
  /\ acquiredAt' = [v \in Inputs |-> Never]
  /\ released' = TRUE
  /\ prevHeld' = used_values
  /\ UNCHANGED keyVars
  /\ UNCHANGED <<config, added_times, last_release_time, now, lastBulk>>

VL_Size ==
  /\ kind = "ValueLock"
  /\ op' = [name |-> "size", arg |-> None]
  /\ ret' = [NoRet EXCEPT !.size = ValueLock_size(used_values)]
  /\ UNCHANGED keyVars
  /\ UNCHANGED <<config, used_values, added_times, last_release_time, now,
                 acquiredAt, released, prevHeld, lastBulk>>

\* -------------------------------------------------- SmartValueLock actions

\* SmartValueLock.acquire(value). t1 is the clock read of line 96, ts the later
\* read of line 77 inside _conditional_release.
SVL_Acquire(value, d) ==
  /\ kind = "SmartValueLock"
  /\ now + d <= MaxTime
  /\ LET t1 == now
         ts == now + d
         ok == ValueLock_accepts(value, used_values)
         held1 == ValueLock_acquire(value, used_values)
         added1 == [v \in held1 |-> IF v = value THEN t1 ELSE added_times[v]]
         drained == ValueLock_release_returned(held1)
         new_values == Survivors(drained, ts, added1)
     IN IF ok
          THEN /\ now' = ts
               /\ IF Triggers(ts, ValueLock_size(held1))
                    THEN /\ used_values' = new_values
                         /\ added_times' = Restrict(added1, new_values)
                         /\ last_release_time' = ts
                    ELSE /\ used_values' = held1
                         /\ added_times' = added1
                         /\ UNCHANGED last_release_time
               /\ ret' = [NoRet EXCEPT !.acquired = TRUE]
               /\ acquiredAt' = [acquiredAt EXCEPT ![value] = t1]
               /\ lastBulk' = IF used_values' # held1 THEN ts ELSE lastBulk
          ELSE /\ d = 0
               /\ ret' = [NoRet EXCEPT !.acquired = FALSE]
               /\ UNCHANGED <<used_values, added_times, last_release_time, now, acquiredAt,
                              lastBulk>>
  /\ op' = [name |-> "acquire", arg |-> value]
  /\ UNCHANGED keyVars
  /\ UNCHANGED <<config, released, prevHeld>>

\* Mutant of SVL_Release: only the values older than min_lock_duration are dropped.
SVL_Release_conditional ==
  /\ kind = "SmartValueLock"
  /\ used_values' = Survivors(used_values, now, added_times)
  /\ added_times' = Restrict(added_times, used_values')
  /\ last_release_time' = now
  /\ op' = [name |-> "release", arg |-> None]
  /\ ret' = [NoRet EXCEPT !.released = used_values \ used_values']
  /\ acquiredAt' = [v \in Inputs |-> IF v \in used_values' THEN acquiredAt[v] ELSE Never]
  /\ released' = TRUE
  /\ prevHeld' = used_values
  /\ lastBulk' = now
  /\ UNCHANGED keyVars
  /\ UNCHANGED <<config, now>>

\* SmartValueLock.release
SVL_Release ==
  /\ kind = "SmartValueLock"
  /\ used_values' = ValueLock_release_left(used_values)
  /\ added_times' = [v \in {} |-> 0]
  /\ last_release_time' = now
  /\ op' = [name |-> "release", arg |-> None]
  /\ ret' = [NoRet EXCEPT !.released = ValueLock_release_returned(used_values)]
  /\ acquiredAt' = [v \in Inputs |-> Never]
  /\ released' = TRUE
  /\ prevHeld' = used_values
  /\ lastBulk' = now
  /\ UNCHANGED keyVars
  /\ UNCHANGED <<config, now>>

\* Mutant of SVL_Size: size() runs the conditional release before it counts.
SVL_Size_cleaning ==
  /\ kind = "SmartValueLock"
  /\ IF Triggers(now, ValueLock_size(used_values))
       THEN /\ used_values' = Survivors(used_values, now, added_times)
            /\ added_times' = Restrict(added_times, used_values')
            /\ last_release_time' = now
       ELSE UNCHANGED <<used_values, added_times, last_release_time>>
  /\ op' = [name |-> "size", arg |-> None]
  /\ ret' = [NoRet EXCEPT !.size = ValueLock_size(used_values')]
  /\ lastBulk' = IF used_values' # used_values THEN now ELSE lastBulk
  /\ UNCHANGED keyVars
  /\ UNCHANGED <<config, now, acquiredAt, released, prevHeld>>

\* SmartValueLock.size
SVL_Size ==
  /\ kind = "SmartValueLock"
  /\ op' = [name |-> "size", arg |-> None]
  /\ ret' = [NoRet EXCEPT !.size = ValueLock_size(used_values)]
  /\ UNCHANGED keyVars
  /\ UNCHANGED <<config, used_values, added_times, last_release_time, now,
                 acquiredAt, released, prevHeld, lastBulk>>

\* Time passes between calls (the sleep() of the tests).
Tick ==
  /\ kind = "SmartValueLock"
  /\ now < MaxTime
  /\ now' = now + 1
  /\ UNCHANGED keyVars
  /\ UNCHANGED <<config, used_values, added_times, last_release_time, op, ret,
                 acquiredAt, released, prevHeld, lastBulk>>

Next ==
  \/ \E value \in Inputs : VL_Acquire(value)
  \/ VL_Release
  \/ VL_Size
  \/ \E value \in Inputs, d \in 0..MaxDelay : SVL_Acquire(value, d)
  \/ SVL_Release
  \/ SVL_Size
  \/ Tick

Spec == Init /\ [][Next]_vars

\* ------------------------------------------------------------------ claims

Acquire(value) ==
  \/ VL_Acquire(value)
  \/ \E d \in 0..MaxDelay : SVL_Acquire(value, d)

Release == VL_Release \/ SVL_Release

Size == VL_Size \/ SVL_Size

\* The values for which acquire has returned True since the last release.
Since == {v \in Values : acquiredAt[v] # Never}

\* C2: on a ValueLock, acquire(v) of a non-None v the lock does not hold returns
\* True, and every acquire(v) after one that returned True returns False as long
\* as release() has not been called, whatever else was acquired in between.
C2_ValueLockExclusive ==
  [][\A v \in Values :
       (kind = "ValueLock" /\ Acquire(v)) =>
         /\ (v \notin used_values => ret'.acquired = TRUE)
         /\ (acquiredAt[v] # Never => ret'.acquired = FALSE)]_vars

C2_Witness ==
  /\ kind = "ValueLock"
  /\ released
  /\ op = [name |-> "acquire", arg |-> "a"]
  /\ ret.acquired = FALSE
  /\ Since = {"a", "b"}

\* C3 as stated: on a SmartValueLock, once acquire(v) has returned True every
\* later acquire(v) returns False until release() is called, whatever the
\* configuration, the other acquires and the clock.
C3_SmartExclusiveUntilRelease ==
  [][\A v \in Values :
       (kind = "SmartValueLock" /\ Acquire(v) /\ acquiredAt[v] # Never) =>
         ret'.acquired = FALSE]_vars

\* C3 amended: on a SmartValueLock, once acquire(v) has returned True at time t,
\* every later acquire(v) made before t + min_lock_duration returns False until
\* release() is called, whatever the configuration and the other acquires.
C3_SmartExclusiveWithinDuration ==
  [][\A v \in Values :
       (/\ kind = "SmartValueLock"
        /\ Acquire(v)
        /\ acquiredAt[v] # Never
        /\ now < acquiredAt[v] + min_lock_duration) =>
         ret'.acquired = FALSE]_vars

C3_Witness ==
  /\ kind = "SmartValueLock"
  /\ op = [name |-> "acquire", arg |-> "a"]
  /\ ret.acquired = FALSE
  /\ acquiredAt["a"] # Never
  /\ acquiredAt["b"] # Never
  /\ acquiredAt["a"] < now
  /\ now < acquiredAt["a"] + min_lock_duration
  /\ last_release_time > acquiredAt["a"]

\* C7: release() returns exactly the set held just before the call and leaves
\* the lock empty, so that a size() call right after it returns 0; on an empty
\* lock it returns the empty set.
C7_ReleaseReturnsHeld ==
  [][/\ Release => (ret'.released = used_values /\ used_values' = {})
     /\ (Size /\ op.name = "release") => ret'.size = 0]_vars

C7_Witness ==
  /\ kind = "SmartValueLock"
  /\ op.name = "size"
  /\ ret.size = 0
  /\ prevHeld = {"a", "b"}
  /\ Since = {}

\* C8: acquire(None) returns False and leaves the held set unchanged.
C8_AcquireNone ==
  [][Acquire(None) => (ret'.acquired = FALSE /\ used_values' = used_values)]_vars

C8_Witness ==
  /\ op = [name |-> "acquire", arg |-> None]
  /\ ret.acquired = FALSE
  /\ kind = "SmartValueLock"
  /\ used_values = {"a"}

\* When the value was put in the lock: by a successful acquire, or at construction.
HeldSince(v) == IF acquiredAt[v] # Never THEN acquiredAt[v] ELSE 0

\* C9: a value put in a SmartValueLock at time t leaves it before
\* t + min_lock_duration only through release(): a step that is not a release
\* and drops a value (one held before, or the one just acquired) happens at a
\* time >= t + min_lock_duration.
C9_MinLockDuration ==
  [][\A v \in Values :
       (/\ kind = "SmartValueLock"
        /\ ~Release
        /\ v \notin used_values'
        /\ (v \in used_values \/ (Acquire(v) /\ ret'.acquired))) =>
         now' >= HeldSince(v)' + min_lock_duration]_vars

C9_Witness ==
  /\ kind = "SmartValueLock"
  /\ min_lock_duration > 0
  /\ op = [name |-> "acquire", arg |-> "b"]
  /\ ret.acquired
  /\ acquiredAt["a"] # Never
  /\ used_values = {"b"}
  /\ last_release_time = now

\* C10 as stated: after a release(), acquire(v) returns True for every value
\* held before that release, and the lock then holds exactly the values
\* acquired since the release.
C10_ReacquireExactly ==
  [][\A v \in Values :
       (released /\ Acquire(v)) =>
         /\ (v \in prevHeld /\ acquiredAt[v] = Never) => ret'.acquired = TRUE
         /\ used_values' = Since']_vars

\* C10 amended: after a release(), the first acquire(v) of every value held
\* before that release returns True; a ValueLock then holds exactly the values
\* acquired since the release, a SmartValueLock holds only values acquired since
\* the release and, among them, at least those acquired less than
\* min_lock_duration ago.
C10_Reacquire ==
  [][\A v \in Values :
       (released /\ Acquire(v)) =>
         /\ (v \in prevHeld /\ acquiredAt[v] = Never) => ret'.acquired = TRUE
         /\ kind = "ValueLock" => used_values' = Since'
         /\ kind = "SmartValueLock" =>
              /\ used_values' \subseteq Since'
              /\ {w \in Since' : now' < acquiredAt'[w] + min_lock_duration}
                   \subseteq used_values']_vars

C10_Witness ==
  /\ kind = "SmartValueLock"
  /\ released
  /\ prevHeld = {"a", "b"}
  /\ op = [name |-> "acquire", arg |-> "a"]
  /\ ret.acquired
  /\ Since = {"a", "b"}
  /\ used_values = {"a"}

\* --------------------------------------------------- SmartValueLock claims

\* A successful SmartValueLock.acquire(v): v was not held, and the call returned True.
Admits(v) ==
  /\ kind = "SmartValueLock"
  /\ v \notin used_values
  /\ \E d \in 0..MaxDelay : SVL_Acquire(v, d)

\* The trigger condition as the claims state it, at the time now' the
\* conditional release reads, with the value just acquired counted.
BothConditions ==
  /\ now' - last_release_time >= min_cond_release_interval
  /\ Cardinality(used_values) + 1 >= size_threshold

\* addedAt as acquire(v) leaves it before the conditional release runs.
AddedWith(v) == [w \in used_values \cup {v} |-> IF w = v THEN now ELSE added_times[w]]

\* C11: the conditional release run inside a successful acquire acts if and
\* only if both conditions hold: when they do, last_release_time becomes the
\* current time; when either fails, the held set, addedAt and
\* last_release_time are left as the acquire set them.
C11_TriggerCondition ==
  [][\A v \in Values :
       Admits(v) =>
         /\ BothConditions => last_release_time' = now'
         /\ ~BothConditions =>
              /\ used_values' = used_values \cup {v}
              /\ added_times' = AddedWith(v)
              /\ last_release_time' = last_release_time]_vars

C11_Witness ==
  /\ kind = "SmartValueLock"
  /\ size_threshold = 2
  /\ min_cond_release_interval = 1
  /\ op = [name |-> "acquire", arg |-> "b"]
  /\ ret.acquired
  /\ used_values = {"a", "b"}
  /\ added_times["b"] = now
  /\ added_times["a"] < now
  /\ last_release_time = now

\* C12: when the conditional release triggers at time ts, the held set
\* afterwards is exactly the set of held values whose age ts - addedAt is
\* strictly less than min_lock_duration, addedAt keeps exactly their entries,
\* and last_release_time becomes ts, also when nothing was dropped.
C12_EvictionResult ==
  [][\A v \in Values :
       (Admits(v) /\ BothConditions) =>
         /\ used_values' =
              {w \in used_values \cup {v} : now' - AddedWith(v)[w] < min_lock_duration}
         /\ added_times' = [w \in used_values' |-> AddedWith(v)[w]]
         /\ last_release_time' = now']_vars

C12_Witness ==
  /\ kind = "SmartValueLock"
  /\ min_lock_duration = 2
  /\ size_threshold = 2
  /\ min_cond_release_interval = 1
  /\ op = [name |-> "acquire", arg |-> "b"]
  /\ ret.acquired
  /\ used_values = {"b"}
  /\ acquiredAt["a"] # Never
  /\ acquiredAt["a"] + min_lock_duration = now
  /\ added_times["b"] = now
  /\ last_release_time = now

\* C13: when a successful acquire(v) triggers the conditional release, v is
\* still held when acquire returns, for every min_lock_duration >= 0.
C13_AcquiredValueKept ==
  [][\A v \in Values :
       (Admits(v) /\ BothConditions) => v \in used_values']_vars

\* C14: the key set of addedAt of a SmartValueLock is exactly the held set.
C14_AddedAtDomain ==
  kind = "SmartValueLock" => DOMAIN added_times = used_values

C14_Witness ==
  /\ kind = "SmartValueLock"
  /\ op = [name |-> "acquire", arg |-> "b"]
  /\ ret.acquired
  /\ acquiredAt["a"] # Never
  /\ used_values = {"b"}
  /\ DOMAIN added_times = {"b"}
  /\ ~released

\* A successful acquire of v in which the conditional release acted: a value
\* was dropped or _last_release_time was moved.
Evicts(v) ==
  /\ Admits(v)
  /\ \/ used_values' # used_values \cup {v}
     \/ last_release_time' # last_release_time

Frame == <<used_values, added_times, last_release_time>>

C20_ReleaseResets ==
  [][SVL_Release =>
       /\ used_values' = {}
       /\ DOMAIN added_times' = {}
       /\ last_release_time' = now]_vars

C20_Witness ==
  /\ kind = "SmartValueLock"
  /\ min_lock_duration = 2
  /\ min_cond_release_interval = 2
  /\ size_threshold = 2
  /\ op.name = "release"
  /\ ret.released = {"a", "b"}
  /\ used_values = {}
  /\ DOMAIN added_times = {}
  /\ now = 1
  /\ last_release_time = now

====
